---- MODULE Spec2Model ----
(***************************************************************************)
(* The Tidal music provider of Music Assistant                             *)
(* (music_assistant/server/providers/tidal/__init__.py).                   *)
(*                                                                         *)
(* Spec       the provider instance: handle_setup, login and the adapter   *)
(*            operations, run by several callers that interleave at the    *)
(*            awaited SDK calls (asyncio: a coroutine runs without         *)
(*            interruption from one await to the next).                    *)
(* TrackSpec  the track listings and remove_playlist_tracks as functions   *)
(*            of the SDK's track sequence.                                 *)
(* FetchSpec  the four single-entity fetches as functions of the outcome   *)
(*            of the lookup and of the translation.                        *)
(***************************************************************************)
EXTENDS Integers, Sequences, FiniteSets, TLC

-----------------------------------------------------------------------------
(* Bounds of the model *)

\* callers whose invocations may overlap
NumCallers == 2
\* the clock runs from 0 to MaxNow minutes
MaxNow == 1
\* the SDK answers with at most MaxTracks tracks
MaxTracks == 5
\* positions_to_remove holds at most MaxPositions positions
MaxPositions == 2

-----------------------------------------------------------------------------
(* Values *)

\* Python's None and a present value (Optional[...])
None == <<>>
Some(v) == <<v>>

\* timedelta(minutes=30)
Margin == 30

TOKEN_TYPE == "Bearer"

CONF_USERNAME == "username"
CONF_ACCESS_TOKEN == "access_token"
CONF_REFRESH_TOKEN == "refresh_token"
CONF_EXPIRY_TIME == "expiry_time"
ConfKeys == {CONF_USERNAME, CONF_ACCESS_TOKEN, CONF_REFRESH_TOKEN, CONF_EXPIRY_TIME}

Callers == 1..NumCallers

\* str(session.user.id)
str(n) == ToString(n)

\* datetime.isoformat() and datetime.fromisoformat(): a time is a number of
\* minutes, its ISO text is "T" followed by the digits
isoformat(t) == "T" \o ToString(t)
TimeDomain == 0..(MaxNow + 2 * Margin + 2)
fromisoformat(s) == CHOOSE t \in TimeDomain : isoformat(t) = s

\* bool(x) of an Optional[str]: None and "" are falsy
Truthy(o) == o # None /\ o[1] # ""

-----------------------------------------------------------------------------
(* The environment: what the SDK may answer and what the store may hold *)

\* Sessions the SDK's session-establishment routine may return at time t:
\* one of two sets of credentials, expiring a minute after the margin, so
\* that a session is at the margin once a minute has passed
Generations == {1, 2}
Lifetimes == {Margin + 1}
SdkSession(k, e) ==
  [access_token  |-> "a" \o ToString(k),
   refresh_token |-> "r" \o ToString(k),
   expiry_time   |-> e,
   user_id       |-> 6 + k]
SdkSessions(t) == {SdkSession(k, t + l) : k \in Generations, l \in Lifetimes}

\* The configuration store when the provider starts: never written, holding
\* empty strings, or holding what an earlier run persisted
StoredConfig(u, a, r, e) ==
  (CONF_USERNAME :> u) @@ (CONF_ACCESS_TOKEN :> a) @@
  (CONF_REFRESH_TOKEN :> r) @@ (CONF_EXPIRY_TIME :> e)
InitConfigs ==
  {StoredConfig(None, None, None, None),
   StoredConfig(Some(""), Some(""), Some(""), Some("")),
   StoredConfig(Some(str(7)), Some("a0"), Some("r0"), Some(isoformat(Margin))),
   StoredConfig(Some(str(7)), Some("a0"), Some("r0"), Some(isoformat(Margin + 1)))}

-----------------------------------------------------------------------------
(* State *)

VARIABLES
  now,            \* datetime.now(), in minutes
  config,         \* self.mass.config: the provider's four stored values
  access_token,   \* self._access_token
  refresh_token,  \* self._refresh_token
  expiry_time,    \* self._expiry_time
  tidal_user_id,  \* self._tidal_user_id
  tidal_session,  \* self._tidal_session
  phase,          \* "new", "setup", "ready" or "failed": setup()'s progress
  pc,             \* per caller: where its coroutine is suspended
  op,             \* per caller: the operation it runs
  args,           \* per caller: the arguments of its pending tidal_session call, if any
  item_id,        \* per caller: get_stream_details' argument
  track,          \* per caller: get_stream_details' local `track`
  url,            \* per caller: get_stream_details' local `url`
  ret,            \* per caller: what its operation returned or raised
  trace,          \* per caller: the calls its operation has made, in order
  tracks,         \* TrackSpec: the track sequence the SDK answers with
  positions,      \* TrackSpec: positions_to_remove
  listed_by,      \* TrackSpec: the operation that ran, "" before it
  listing,        \* TrackSpec: the tracks the operation returned
  removed,        \* TrackSpec: the batches of ids submitted for removal
  fetch           \* FetchSpec: the fetch, what the helpers do, and its outcome

cached == <<access_token, refresh_token, expiry_time, tidal_user_id, tidal_session>>
callerVars == <<pc, op, args, item_id, track, url, ret, trace>>
sessionVars == <<now, config, cached, phase, callerVars>>
trackVars == <<tracks, positions, listed_by, listing, removed>>
vars == <<sessionVars, trackVars, fetch>>

NoRet == [kind |-> "none", handle |-> None, error |-> "", msg |-> ""]
Returns(h) == [kind |-> "handle", handle |-> h, error |-> "", msg |-> ""]
ReturnsValue(k) == [kind |-> k, handle |-> None, error |-> "", msg |-> ""]
Raises(e, m) == [kind |-> "error", handle |-> None, error |-> e, msg |-> m]

-----------------------------------------------------------------------------
(* login *)

\* login_cached_ok with the margin a minute too long
login_cached_ok_late(sess, acc, exp, t) ==
  /\ sess # None
  /\ Some(sess[1].access_token) = acc
  /\ exp[1] > t + Margin + 1

\* login_cached_ok with >= for >
login_cached_ok_inclusive(sess, acc, exp, t) ==
  /\ sess # None
  /\ Some(sess[1].access_token) = acc
  /\ exp[1] >= t + Margin

\* login's test of the cached session: a handle is cached, its access token
\* is the cached one, and the cached expiry is more than Margin away
login_cached_ok(sess, acc, exp, t) ==
  /\ sess # None
  /\ Some(sess[1].access_token) = acc
  /\ exp[1] > t + Margin

\* login's four config.set calls with the fields of the new session
login_persist(cfg, s) ==
  [cfg EXCEPT ![CONF_USERNAME] = Some(str(s.user_id)),
              ![CONF_ACCESS_TOKEN] = Some(s.access_token),
              ![CONF_REFRESH_TOKEN] = Some(s.refresh_token),
              ![CONF_EXPIRY_TIME] = Some(isoformat(s.expiry_time))]

\* login_store without the assignment of _refresh_token
login_store_partial(s) ==
  <<Some(s.access_token), refresh_token, Some(s.expiry_time),
    Some(s.user_id), Some(s)>>

\* login's five assignments: the new value of
\* <<_access_token, _refresh_token, _expiry_time, _tidal_user_id, _tidal_session>>
login_store(s) ==
  <<Some(s.access_token), Some(s.refresh_token), Some(s.expiry_time),
    Some(s.user_id), Some(s)>>

\* What operation o returns once its call of login has returned handle h
AfterLogin(o, h) ==
  IF o = "login" THEN Returns(h)
  ELSE IF o = "get_stream_details" THEN ReturnsValue("StreamDetails")
  ELSE ReturnsValue("None")

\* login entered by caller p, running operation o, after the calls tr, with
\* acc, ref, exp the cached credentials: it returns the cached handle, or
\* calls tidal_session and is suspended until the SDK answers
login(p, o, tr, acc, ref, exp) ==
  IF login_cached_ok(tidal_session, acc, exp, now)
  THEN /\ pc' = [pc EXCEPT ![p] = "returned"]
       /\ ret' = [ret EXCEPT ![p] = AfterLogin(o, tidal_session)]
       /\ trace' = [trace EXCEPT ![p] = tr \o <<"login">>]
       /\ args' = args
  ELSE /\ pc' = [pc EXCEPT ![p] = "await_login"]
       /\ args' = [args EXCEPT ![p] = <<TOKEN_TYPE, acc, ref, exp>>]
       /\ trace' = [trace EXCEPT ![p] = tr \o <<"login", "tidal_session">>]
       /\ ret' = ret

\* load_credentials without the test that the stored access token is not empty
load_credentials_unchecked(cfg) ==
  <<IF cfg[CONF_ACCESS_TOKEN] # None THEN cfg[CONF_ACCESS_TOKEN] ELSE access_token,
    IF Truthy(cfg[CONF_REFRESH_TOKEN]) THEN cfg[CONF_REFRESH_TOKEN] ELSE refresh_token,
    IF Truthy(cfg[CONF_EXPIRY_TIME])
      THEN Some(fromisoformat(cfg[CONF_EXPIRY_TIME][1])) ELSE expiry_time>>

\* handle_setup's load of the stored credentials: a stored value that is
\* None or empty leaves the field as it is
load_credentials(cfg) ==
  <<IF Truthy(cfg[CONF_ACCESS_TOKEN]) THEN cfg[CONF_ACCESS_TOKEN] ELSE access_token,
    IF Truthy(cfg[CONF_REFRESH_TOKEN]) THEN cfg[CONF_REFRESH_TOKEN] ELSE refresh_token,
    IF Truthy(cfg[CONF_EXPIRY_TIME])
      THEN Some(fromisoformat(cfg[CONF_EXPIRY_TIME][1])) ELSE expiry_time>>

\* setup(): handle_setup on the new instance, up to login's await
HandleSetup(p) ==
  /\ phase = "new"
  /\ pc[p] = "idle"
  /\ LET loaded == load_credentials(config)
     IN /\ access_token' = loaded[1]
        /\ refresh_token' = loaded[2]
        /\ expiry_time' = loaded[3]
        /\ login(p, "handle_setup", <<>>, loaded[1], loaded[2], loaded[3])
        /\ phase' = IF login_cached_ok(tidal_session, loaded[1], loaded[3], now)
                    THEN "ready" ELSE "setup"
  /\ op' = [op EXCEPT ![p] = "handle_setup"]
  /\ UNCHANGED <<now, config, tidal_user_id, tidal_session, item_id, track, url, trackVars, fetch>>

\* login called on the ready instance
Login(p) ==
  /\ phase = "ready"
  /\ pc[p] = "idle"
  /\ op' = [op EXCEPT ![p] = "login"]
  /\ login(p, "login", <<>>, access_token, refresh_token, expiry_time)
  /\ UNCHANGED <<now, config, cached, phase, item_id, track, url, trackVars, fetch>>

\* tidal_session returns session s: login persists it, caches it and
\* returns, and so does the operation that called login
LoginSuccess(p, s) ==
  /\ pc[p] = "await_login"
  /\ config' = login_persist(config, s)
  /\ access_token' = login_store(s)[1]
  /\ refresh_token' = login_store(s)[2]
  /\ expiry_time' = login_store(s)[3]
  /\ tidal_user_id' = login_store(s)[4]
  /\ tidal_session' = login_store(s)[5]
  /\ pc' = [pc EXCEPT ![p] = "returned"]
  /\ ret' = [ret EXCEPT ![p] = AfterLogin(op[p], Some(s))]
  /\ trace' = [trace EXCEPT ![p] =
       @ \o <<"config.set", "config.set", "config.set", "config.set">>]
  /\ phase' = IF op[p] = "handle_setup" THEN "ready" ELSE phase
  /\ args' = [args EXCEPT ![p] = <<>>]
  /\ UNCHANGED <<now, op, item_id, track, url, trackVars, fetch>>

\* LoginFail dropping the cached handle when tidal_session raises
LoginFail_clears(p) ==
  /\ pc[p] = "await_login"
  /\ pc' = [pc EXCEPT ![p] = "returned"]
  /\ ret' = [ret EXCEPT ![p] = Raises("LoginError", "")]
  /\ phase' = IF op[p] = "handle_setup" THEN "failed" ELSE phase
  /\ args' = [args EXCEPT ![p] = <<>>]
  /\ tidal_session' = None
  /\ UNCHANGED <<now, config, access_token, refresh_token, expiry_time, tidal_user_id,
                 op, item_id, track, url, trace, trackVars, fetch>>

\* tidal_session raises: the exception leaves login and the operation
LoginFail(p) ==
  /\ pc[p] = "await_login"
  /\ pc' = [pc EXCEPT ![p] = "returned"]
  /\ ret' = [ret EXCEPT ![p] = Raises("LoginError", "")]
  /\ phase' = IF op[p] = "handle_setup" THEN "failed" ELSE phase
  /\ args' = [args EXCEPT ![p] = <<>>]
  /\ UNCHANGED <<now, config, cached, op, item_id, track, url, trace, trackVars, fetch>>

-----------------------------------------------------------------------------
(* get_stream_details *)

ItemIds == {"t1"}

\* get_stream_details up to its first await: get_track on the cached session
GetStreamDetails(p, id) ==
  /\ phase = "ready"
  /\ pc[p] = "idle"
  /\ pc' = [pc EXCEPT ![p] = "await_track"]
  /\ op' = [op EXCEPT ![p] = "get_stream_details"]
  /\ item_id' = [item_id EXCEPT ![p] = id]
  /\ trace' = [trace EXCEPT ![p] = <<"get_track">>]
  /\ UNCHANGED <<now, config, cached, phase, args, track, url, ret, trackVars, fetch>>

\* get_track answers t, a track or None: get_track_url is called next
TrackReturn(p, t) ==
  /\ pc[p] = "await_track"
  /\ pc' = [pc EXCEPT ![p] = "await_url"]
  /\ track' = [track EXCEPT ![p] = t]
  /\ trace' = [trace EXCEPT ![p] = @ \o <<"get_track_url">>]
  /\ UNCHANGED <<now, config, cached, phase, op, args, item_id, url, ret, trackVars, fetch>>

\* get_track raises
TrackFail(p) ==
  /\ pc[p] = "await_track"
  /\ pc' = [pc EXCEPT ![p] = "returned"]
  /\ ret' = [ret EXCEPT ![p] = Raises("SdkError", "")]
  /\ UNCHANGED <<now, config, cached, phase, op, args, item_id, track, url, trace,
                 trackVars, fetch>>

\* The message of the MediaNotFoundError raised for a missing track
track_not_found(id) == "track " \o id \o " not found"

\* UrlReturn returning the StreamDetails without the call of login
UrlReturn_nologin(p) ==
  /\ pc[p] = "await_url"
  /\ url' = [url EXCEPT ![p] = Some("url")]
  /\ pc' = [pc EXCEPT ![p] = "returned"]
  /\ ret' = [ret EXCEPT ![p] =
       IF track[p] = None
       THEN Raises("MediaNotFoundError", track_not_found(item_id[p]))
       ELSE ReturnsValue("StreamDetails")]
  /\ UNCHANGED <<now, config, cached, phase, op, args, item_id, track, trace,
                 trackVars, fetch>>

\* get_track_url answers: no track raises MediaNotFoundError, a track goes
\* on to login and to the StreamDetails returned after it
UrlReturn(p) ==
  /\ pc[p] = "await_url"
  /\ url' = [url EXCEPT ![p] = Some("url")]
  /\ IF track[p] = None
     THEN /\ pc' = [pc EXCEPT ![p] = "returned"]
          /\ ret' = [ret EXCEPT ![p] =
               Raises("MediaNotFoundError", track_not_found(item_id[p]))]
          /\ UNCHANGED <<args, trace>>
     ELSE login(p, "get_stream_details", trace[p],
                access_token, refresh_token, expiry_time)
  /\ UNCHANGED <<now, config, cached, phase, op, item_id, track, trackVars, fetch>>

\* get_track_url raises
UrlFail(p) ==
  /\ pc[p] = "await_url"
  /\ pc' = [pc EXCEPT ![p] = "returned"]
  /\ ret' = [ret EXCEPT ![p] = Raises("SdkError", "")]
  /\ UNCHANGED <<now, config, cached, phase, op, args, item_id, track, url, trace,
                 trackVars, fetch>>

-----------------------------------------------------------------------------
(* The operations that hand the cached session to one or two SDK calls *)

\* SdkCall with a call of login before the SDK call
SdkCall_ensures(p, o, next) ==
  /\ phase = "ready"
  /\ pc[p] = "idle"
  /\ pc' = [pc EXCEPT ![p] = next]
  /\ op' = [op EXCEPT ![p] = o]
  /\ trace' = [trace EXCEPT ![p] = <<"login", "sdk">>]
  /\ UNCHANGED <<now, config, cached, phase, args, item_id, track, url, ret, trackVars, fetch>>

\* An operation up to its await of an SDK call made with self._tidal_session;
\* next is where the caller is suspended
SdkCall(p, o, next) ==
  /\ phase = "ready"
  /\ pc[p] = "idle"
  /\ pc' = [pc EXCEPT ![p] = next]
  /\ op' = [op EXCEPT ![p] = o]
  /\ trace' = [trace EXCEPT ![p] = <<"sdk">>]
  /\ UNCHANGED <<now, config, cached, phase, args, item_id, track, url, ret, trackVars, fetch>>

Search(p) == SdkCall(p, "operation", "await_sdk")
GetLibraryArtists(p) == SdkCall(p, "operation", "await_sdk")
GetLibraryAlbums(p) == SdkCall(p, "operation", "await_sdk")
GetLibraryTracks(p) == SdkCall(p, "operation", "await_sdk")
GetLibraryPlaylists(p) == SdkCall(p, "operation", "await_sdk")
GetAlbumTracks(p) == SdkCall(p, "operation", "await_sdk")
GetArtistAlbums(p) == SdkCall(p, "operation", "await_sdk")
GetArtistToptracks(p) == SdkCall(p, "operation", "await_sdk")
GetPlaylistTracks(p) == SdkCall(p, "operation", "await_sdk")
GetSimilarTracks(p) == SdkCall(p, "operation", "await_sdk")
LibraryAdd(p) == SdkCall(p, "operation", "await_sdk")
LibraryRemove(p) == SdkCall(p, "operation", "await_sdk")
AddPlaylistTracks(p) == SdkCall(p, "operation", "await_sdk")
GetArtist(p) == SdkCall(p, "operation", "await_sdk")
GetAlbum(p) == SdkCall(p, "operation", "await_sdk")
GetTrack(p) == SdkCall(p, "operation", "await_sdk")
GetPlaylist(p) == SdkCall(p, "operation", "await_sdk")
CreatePlaylist(p) == SdkCall(p, "operation", "await_sdk")
\* remove_playlist_tracks lists the playlist before it calls the removal
RemovePlaylistTracks(p) == SdkCall(p, "operation", "await_listing")

\* remove_playlist_tracks: the listing is done, the removal is called
ListingReturn(p) ==
  /\ pc[p] = "await_listing"
  /\ pc' = [pc EXCEPT ![p] = "await_sdk"]
  /\ trace' = [trace EXCEPT ![p] = @ \o <<"sdk">>]
  /\ UNCHANGED <<now, config, cached, phase, op, args, item_id, track, url, ret, trackVars, fetch>>

\* The SDK call answers and the operation returns its result
SdkReturn(p) ==
  /\ pc[p] = "await_sdk"
  /\ pc' = [pc EXCEPT ![p] = "returned"]
  /\ ret' = [ret EXCEPT ![p] = ReturnsValue("result")]
  /\ UNCHANGED <<now, config, cached, phase, op, args, item_id, track, url, trace,
                 trackVars, fetch>>

\* The SDK call raises
SdkFail(p) ==
  /\ pc[p] \in {"await_sdk", "await_listing"}
  /\ pc' = [pc EXCEPT ![p] = "returned"]
  /\ ret' = [ret EXCEPT ![p] = Raises("SdkError", "")]
  /\ UNCHANGED <<now, config, cached, phase, op, args, item_id, track, url, trace,
                 trackVars, fetch>>

-----------------------------------------------------------------------------
(* The caller and the clock *)

\* The caller takes the result; it may invoke the next operation
Return(p) ==
  /\ pc[p] = "returned"
  /\ pc' = [pc EXCEPT ![p] = "idle"]
  /\ op' = [op EXCEPT ![p] = ""]
  /\ args' = [args EXCEPT ![p] = <<>>]
  /\ item_id' = [item_id EXCEPT ![p] = ""]
  /\ track' = [track EXCEPT ![p] = None]
  /\ url' = [url EXCEPT ![p] = None]
  /\ ret' = [ret EXCEPT ![p] = NoRet]
  /\ trace' = [trace EXCEPT ![p] = <<>>]
  /\ UNCHANGED <<now, config, cached, phase, trackVars, fetch>>

\* A minute passes
Tick ==
  /\ now < MaxNow
  /\ now' = now + 1
  /\ UNCHANGED <<config, cached, phase, callerVars, trackVars, fetch>>

-----------------------------------------------------------------------------
(* The provider instance *)

NoFetch == [kind |-> "", id |-> "", lookup |-> "", parse |-> "", ret |-> NoRet]

\* The callers idle
CallersIdle ==
  /\ pc = [p \in Callers |-> "idle"]
  /\ op = [p \in Callers |-> ""]
  /\ args = [p \in Callers |-> <<>>]
  /\ item_id = [p \in Callers |-> ""]
  /\ track = [p \in Callers |-> None]
  /\ url = [p \in Callers |-> None]
  /\ ret = [p \in Callers |-> NoRet]
  /\ trace = [p \in Callers |-> <<>>]

Init ==
  /\ now = 0
  /\ config \in InitConfigs
  /\ access_token = None
  /\ refresh_token = None
  /\ expiry_time = None
  /\ tidal_user_id = None
  /\ tidal_session = None
  /\ phase = "new"
  /\ CallersIdle
  /\ tracks = <<>>
  /\ positions = <<>>
  /\ listed_by = ""
  /\ listing = <<>>
  /\ removed = <<>>
  /\ fetch = NoFetch

Next ==
  \/ Tick
  \/ \E p \in Callers :
       \/ HandleSetup(p)
       \/ Login(p)
       \/ \E s \in SdkSessions(now) : LoginSuccess(p, s)
       \/ LoginFail(p)
       \/ \E id \in ItemIds : GetStreamDetails(p, id)
       \/ \E t \in {None, Some("track")} : TrackReturn(p, t)
       \/ TrackFail(p)
       \/ UrlReturn(p)
       \/ UrlFail(p)
       \/ Search(p)
       \/ GetLibraryArtists(p)
       \/ GetLibraryAlbums(p)
       \/ GetLibraryTracks(p)
       \/ GetLibraryPlaylists(p)
       \/ GetAlbumTracks(p)
       \/ GetArtistAlbums(p)
       \/ GetArtistToptracks(p)
       \/ GetPlaylistTracks(p)
       \/ GetSimilarTracks(p)
       \/ LibraryAdd(p)
       \/ LibraryRemove(p)
       \/ AddPlaylistTracks(p)
       \/ RemovePlaylistTracks(p)
       \/ CreatePlaylist(p)
       \/ GetArtist(p)
       \/ GetAlbum(p)
       \/ GetTrack(p)
       \/ GetPlaylist(p)
       \/ ListingReturn(p)
       \/ SdkReturn(p)
       \/ SdkFail(p)
       \/ Return(p)

Spec == Init /\ [][Next]_vars

-----------------------------------------------------------------------------
(* The track listings and remove_playlist_tracks *)

\* The track sequences the SDK may answer with: the i-th track has the id
\* "t<i>" and is available or not
TrackObj(i, a) == [id |-> "t" \o ToString(i), available |-> a]
TrackSeqs ==
  UNION {{[i \in 1..n |-> TrackObj(i, f[i])] : f \in [1..n -> BOOLEAN]} : n \in 0..MaxTracks}

\* positions_to_remove: tuples of positions, 0 and MaxTracks + 1 among them
PositionTuples == UNION {[1..n -> 0..(MaxTracks + 1)] : n \in 0..MaxPositions}

\* helpers.parse_track: the Track of an SDK track, its position not yet set
parse_track(track_obj) == [item_id |-> track_obj.id, position |-> 0]

\* The loop of get_album_tracks and get_artist_toptracks over
\* enumerate(tracks, 1), from index on
RECURSIVE enumerate_from_1(_, _, _)
enumerate_from_1(trs, index, result) ==
  IF index > Len(trs) THEN result
  ELSE IF trs[index].available
       THEN enumerate_from_1(trs, index + 1,
              Append(result, [parse_track(trs[index]) EXCEPT !.position = index]))
       ELSE enumerate_from_1(trs, index + 1, result)

\* The loop of get_playlist_tracks over enumerate(tracks): the index starts
\* at 0 and the position is index + 1 (the Track parse_track returns is truthy)
RECURSIVE enumerate_from_0(_, _, _)
enumerate_from_0(trs, index, result) ==
  IF index >= Len(trs) THEN result
  ELSE IF trs[index + 1].available
       THEN enumerate_from_0(trs, index + 1,
              Append(result, [parse_track(trs[index + 1]) EXCEPT !.position = index + 1]))
       ELSE enumerate_from_0(trs, index + 1, result)

\* get_album_tracks with enumerate(tracks) for enumerate(tracks, 1)
get_album_tracks_from_0(trs) ==
  [k \in 1..Len(enumerate_from_1(trs, 1, <<>>)) |->
     [enumerate_from_1(trs, 1, <<>>)[k] EXCEPT !.position = @ - 1]]

get_album_tracks(trs) == enumerate_from_1(trs, 1, <<>>)
get_artist_toptracks(trs) == enumerate_from_1(trs, 1, <<>>)
get_playlist_tracks(trs) == enumerate_from_0(trs, 0, <<>>)

\* remove_playlist_tracks' loop over the listing lst from its i-th track on,
\* with the ids collected so far: it breaks once it holds as many ids as
\* positions were given
RECURSIVE collect_ids(_, _, _, _)
collect_ids(lst, i, pos, ids) ==
  IF i > Len(lst) THEN ids
  ELSE LET found == IF \E k \in 1..Len(pos) : pos[k] = lst[i].position
                    THEN Append(ids, lst[i].item_id) ELSE ids
       IN IF Len(found) = Len(pos) THEN found
          ELSE collect_ids(lst, i + 1, pos, found)

\* remove_playlist_tracks taking a track's place in the listing for its position
remove_playlist_tracks_by_place(trs, pos) ==
  LET lst == get_playlist_tracks(trs)
  IN collect_ids([k \in 1..Len(lst) |-> [lst[k] EXCEPT !.position = k]], 1, pos, <<>>)

\* The ids remove_playlist_tracks submits to add_remove_playlist_tracks
remove_playlist_tracks(trs, pos) ==
  collect_ids(get_playlist_tracks(trs), 1, pos, <<>>)

\* An operation lists the tracks the SDK answered with
Lists(name, result) ==
  /\ listed_by = ""
  /\ listed_by' = name
  /\ listing' = result
  /\ UNCHANGED <<sessionVars, tracks, positions, removed, fetch>>

AlbumTracksListed == Lists("get_album_tracks", get_album_tracks(tracks))
ArtistToptracksListed == Lists("get_artist_toptracks", get_artist_toptracks(tracks))
PlaylistTracksListed == Lists("get_playlist_tracks", get_playlist_tracks(tracks))

\* remove_playlist_tracks lists the playlist and submits one batch of ids
PlaylistTracksRemoved ==
  /\ listed_by = ""
  /\ listed_by' = "remove_playlist_tracks"
  /\ removed' = Append(removed, remove_playlist_tracks(tracks, positions))
  /\ UNCHANGED <<sessionVars, tracks, positions, listing, fetch>>

\* The provider after a setup whose login succeeded
ReadySession == SdkSession(1, Margin + 1)
Ready ==
  /\ now = 0
  /\ config = login_persist(StoredConfig(None, None, None, None), ReadySession)
  /\ access_token = login_store(ReadySession)[1]
  /\ refresh_token = login_store(ReadySession)[2]
  /\ expiry_time = login_store(ReadySession)[3]
  /\ tidal_user_id = login_store(ReadySession)[4]
  /\ tidal_session = login_store(ReadySession)[5]
  /\ phase = "ready"
  /\ CallersIdle

TrackInit ==
  /\ Ready
  /\ tracks \in TrackSeqs
  /\ positions \in PositionTuples
  /\ listed_by = ""
  /\ listing = <<>>
  /\ removed = <<>>
  /\ fetch = NoFetch

TrackNext ==
  \/ AlbumTracksListed
  \/ ArtistToptracksListed
  \/ PlaylistTracksListed
  \/ PlaylistTracksRemoved

TrackSpec == TrackInit /\ [][TrackNext]_vars

-----------------------------------------------------------------------------
(* The single-entity fetches *)

FetchIds == {"missing-id", "17", "42"}
\* What a helper does: it answers, or raises one of these
Failures == {"MediaNotFoundError", "ConnectionError", "KeyError"}
Outcomes == {"ok"} \cup Failures

\* helpers.get_artist, get_album, get_track, get_playlist: the SDK object,
\* or the exception raised
lookup(id, outcome) ==
  IF outcome = "ok" THEN ReturnsValue("object") ELSE Raises(outcome, "lookup of " \o id)

\* helpers.parse_artist, parse_album, parse_track, parse_playlist, evaluated
\* in the try block: the entity, or the exception raised
parse(kind, outcome) ==
  IF outcome = "ok" THEN ReturnsValue(kind) ELSE Raises(outcome, "parse of " \o kind)

\* try: parse(lookup) / except MediaNotFoundError: raise MediaNotFoundError
\* naming kind and id
fetch_entity(kind, id, lookup_outcome, parse_outcome) ==
  LET obj == lookup(id, lookup_outcome)
      tried == IF obj.kind = "error" THEN obj ELSE parse(kind, parse_outcome)
  IN IF tried.kind = "error" /\ tried.error = "MediaNotFoundError"
     THEN Raises("MediaNotFoundError", kind \o " " \o id \o " not found")
     ELSE tried

\* get_track with except Exception for except MediaNotFoundError
get_track_catch_all(id, lookup_outcome, parse_outcome) ==
  LET obj == lookup(id, lookup_outcome)
      tried == IF obj.kind = "error" THEN obj ELSE parse("Track", parse_outcome)
  IN IF tried.kind = "error"
     THEN Raises("MediaNotFoundError", "Track " \o id \o " not found")
     ELSE tried

get_artist(id, lookup_outcome, parse_outcome) ==
  fetch_entity("Artist", id, lookup_outcome, parse_outcome)
get_album(id, lookup_outcome, parse_outcome) ==
  fetch_entity("Album", id, lookup_outcome, parse_outcome)
get_track(id, lookup_outcome, parse_outcome) ==
  fetch_entity("Track", id, lookup_outcome, parse_outcome)
get_playlist(id, lookup_outcome, parse_outcome) ==
  fetch_entity("Playlist", id, lookup_outcome, parse_outcome)

\* A fetch runs to its end
Fetches(kind, result) ==
  /\ fetch.kind = ""
  /\ fetch' = [fetch EXCEPT !.kind = kind, !.ret = result]
  /\ UNCHANGED <<sessionVars, trackVars>>

ArtistFetched == Fetches("Artist", get_artist(fetch.id, fetch.lookup, fetch.parse))
AlbumFetched == Fetches("Album", get_album(fetch.id, fetch.lookup, fetch.parse))
TrackFetched == Fetches("Track", get_track(fetch.id, fetch.lookup, fetch.parse))
PlaylistFetched == Fetches("Playlist", get_playlist(fetch.id, fetch.lookup, fetch.parse))

FetchInit ==
  /\ Ready
  /\ tracks = <<>>
  /\ positions = <<>>
  /\ listed_by = ""
  /\ listing = <<>>
  /\ removed = <<>>
  /\ fetch \in {[NoFetch EXCEPT !.id = id, !.lookup = l, !.parse = t] :
                  id \in FetchIds, l \in Outcomes, t \in Outcomes}

FetchNext ==
  \/ ArtistFetched
  \/ AlbumFetched
  \/ TrackFetched
  \/ PlaylistFetched

FetchSpec == FetchInit /\ [][FetchNext]_vars

-----------------------------------------------------------------------------
(* Properties of the session *)

Elems(sq) == {sq[i] : i \in 1..Len(sq)}
Count(x, sq) == Cardinality({i \in 1..Len(sq) : sq[i] = x})

\* The calls caller p makes in a step: what the step appends to its trace
NewCalls(p) ==
  IF Len(trace'[p]) > Len(trace[p])
  THEN SubSeq(trace'[p], Len(trace[p]) + 1, Len(trace'[p]))
  ELSE <<>>

\* Caller p enters login in the step
EntersLogin(p) == "login" \in Elems(NewCalls(p))

\* Caller p's operation calls the SDK in the step (tidal_session apart)
OperationCalls == {"sdk", "get_track", "get_track_url"}
IssuesSdkCall(p) == Elems(NewCalls(p)) \cap OperationCalls # {}

\* tidal_session returns to caller p in the step / raises in the step
LoginCompletes(p) ==
  pc[p] = "await_login" /\ pc'[p] = "returned" /\ ret'[p].kind # "error"
LoginRaises(p) ==
  pc[p] = "await_login" /\ pc'[p] = "returned" /\ ret'[p].kind = "error"

\* A handle is cached, its access token is the cached one and the cached
\* expiry is more than 30 minutes away
SessionFresh ==
  /\ tidal_session # None
  /\ access_token = Some(tidal_session[1].access_token)
  /\ expiry_time # None
  /\ expiry_time[1] - now > 30

ConfigSets == <<"config.set", "config.set", "config.set", "config.set">>

\* C1: when a handle is cached, its access token is the cached access token
\* and the cached expiry is more than 30 minutes away, login calls neither
\* tidal_session nor config.set, returns the cached handle and leaves the
\* cached credentials, the handle and the store as they are.
NoRefreshWhenFresh ==
  [][\A p \in Callers :
       (SessionFresh /\ EntersLogin(p)) =>
         /\ NewCalls(p) = <<"login">>
         /\ pc'[p] = "returned"
         /\ op'[p] = "login" => ret'[p] = Returns(tidal_session)
         /\ op'[p] = "get_stream_details" => ret'[p].kind = "StreamDetails"
         /\ UNCHANGED <<cached, config>>]_vars

\* login has returned the cached handle without a call of tidal_session
FreshLoginReturned ==
  \E p \in Callers :
    /\ pc[p] = "returned"
    /\ op[p] = "login"
    /\ trace[p] = <<"login">>
    /\ ret[p] = Returns(tidal_session)
    /\ SessionFresh

\* C2: when no handle is cached, or the cached expiry is 30 minutes away or
\* less, or the handle's access token is not the cached one, login calls
\* tidal_session once with the cached access token, refresh token and expiry;
\* when the call returns a session, the cached credentials, user id and handle
\* are that session's, the store holds its four fields, and login returns it.
RefreshWhenStale ==
  [][\A p \in Callers :
       /\ (EntersLogin(p) /\ ~SessionFresh') =>
            /\ NewCalls(p) = <<"login", "tidal_session">>
            /\ pc'[p] = "await_login"
            /\ args'[p] = <<TOKEN_TYPE, access_token', refresh_token', expiry_time'>>
       /\ LoginCompletes(p) =>
            /\ tidal_session' # None
            /\ op[p] = "login" => ret'[p] = Returns(tidal_session')
            /\ LET s == tidal_session'[1]
               IN /\ access_token' = Some(s.access_token)
                  /\ refresh_token' = Some(s.refresh_token)
                  /\ expiry_time' = Some(s.expiry_time)
                  /\ tidal_user_id' = Some(s.user_id)
                  /\ config'[CONF_ACCESS_TOKEN] = Some(s.access_token)
                  /\ config'[CONF_REFRESH_TOKEN] = Some(s.refresh_token)
                  /\ config'[CONF_USERNAME] = Some(ToString(s.user_id))
                  /\ config'[CONF_EXPIRY_TIME] = Some("T" \o ToString(s.expiry_time))
            /\ NewCalls(p) = ConfigSets
            /\ Count("tidal_session", trace'[p]) = 1]_vars

\* login on the ready instance is suspended in the call of tidal_session it
\* made for a cached session exactly 30 minutes from its expiry
StaleLoginRefreshing ==
  \E p \in Callers :
    /\ pc[p] = "await_login"
    /\ op[p] = "login"
    /\ trace[p] = <<"login", "tidal_session">>
    /\ tidal_session # None
    /\ args[p] = <<TOKEN_TYPE, access_token, refresh_token, expiry_time>>
    /\ access_token = Some(tidal_session[1].access_token)
    /\ expiry_time = Some(now + 30)

\* C3: when tidal_session raises, the failure reaches the caller, no second
\* call is made, and the cached credentials, user id and handle and the store
\* are left as they are; with the credentials still those of the failed call,
\* the next login calls tidal_session again.
FailedRefreshKeepsState ==
  [][\A p \in Callers :
       LoginRaises(p) =>
         /\ ret'[p] = Raises("LoginError", "")
         /\ trace'[p] = trace[p]
         /\ Count("tidal_session", trace'[p]) = 1
         /\ UNCHANGED <<cached, config>>
         /\ (args[p] = <<TOKEN_TYPE, access_token, refresh_token, expiry_time>>)
              => ~SessionFresh']_vars

\* login on the ready instance has failed, the cached session still in place
FailedLoginReturned ==
  \E p \in Callers :
    /\ pc[p] = "returned"
    /\ op[p] = "login"
    /\ ret[p].kind = "error"
    /\ trace[p] = <<"login", "tidal_session">>
    /\ tidal_session # None
    /\ ~SessionFresh

\* C4: in every state, a cached handle agrees with the cached credentials:
\* its access token, refresh token, expiry and user id are the cached ones.
HandleAgreesWithCredentials ==
  tidal_session # None =>
    /\ access_token = Some(tidal_session[1].access_token)
    /\ refresh_token = Some(tidal_session[1].refresh_token)
    /\ expiry_time = Some(tidal_session[1].expiry_time)
    /\ tidal_user_id = Some(tidal_session[1].user_id)

\* Two logins overlapped: one has completed with rotated credentials while
\* the other is still suspended in its call made with the old ones
OverlappingLogins ==
  \E p, q \in Callers :
    /\ p # q
    /\ pc[p] = "await_login"
    /\ pc[q] = "returned"
    /\ ret[q] = Returns(tidal_session)
    /\ "tidal_session" \in Elems(trace[q])
    /\ args[p][2] # access_token
    /\ args[p][3] # refresh_token

\* Every SDK call of an operation in the trace comes after a call of login
EnsuredFirst(tr) ==
  \A i \in 1..Len(tr) :
    tr[i] \in OperationCalls => \E j \in 1..(i - 1) : tr[j] = "login"

\* C5 as stated: every operation that needs the network ensures the session
\* before it calls the SDK, so that no SDK call of an operation is issued with
\* the cached expiry 30 minutes away or less.
SessionEnsuredBeforeSdkCalls ==
  [][\A p \in Callers :
       IssuesSdkCall(p) =>
         /\ EnsuredFirst(trace'[p])
         /\ expiry_time # None
         /\ expiry_time[1] - now > 30]_vars

\* C5 as the code has it: an operation hands the handle that setup's login
\* cached to the SDK without a call of login before it; login is called by
\* handle_setup, by login's own callers and by get_stream_details, which calls
\* it after its two SDK calls.
SdkCallsUseCachedSession ==
  [][\A p \in Callers :
       /\ IssuesSdkCall(p) =>
            /\ phase = "ready"
            /\ tidal_session # None
            /\ "login" \notin Elems(trace'[p])
       /\ EntersLogin(p) =>
            /\ op'[p] \in {"handle_setup", "login", "get_stream_details"}
            /\ op'[p] = "get_stream_details" =>
                 trace[p] = <<"get_track", "get_track_url">>]_vars

\* An operation is suspended in an SDK call while the cached expiry is 30
\* minutes away or less
StaleSessionInUse ==
  \E p \in Callers :
    /\ pc[p] = "await_sdk"
    /\ trace[p] = <<"sdk">>
    /\ tidal_session # None
    /\ expiry_time[1] - now <= 30

\* What get_stream_details has called when it returns
StreamCalls == <<"get_track", "get_track_url", "login">>
StreamCallsRefreshed == StreamCalls \o <<"tidal_session">> \o ConfigSets

\* get_stream_details has returned, got a track from get_track and called
\* login once, after both SDK calls; its StreamDetails follows a login that
\* returned
LoginOnceAfterFetches(p) ==
  /\ Count("login", trace[p]) = 1
  /\ SubSeq(trace[p], 1, 3) = StreamCalls
  /\ ret[p].kind = "StreamDetails" => trace[p] \in {StreamCalls, StreamCallsRefreshed}
  /\ ret[p].kind = "error" =>
       ret[p].error = "LoginError" /\ trace[p] = StreamCalls \o <<"tidal_session">>

\* get_stream_details has raised the MediaNotFoundError naming its item_id
RaisedTrackNotFound(p) ==
  /\ ret[p] = Raises("MediaNotFoundError", "track " \o item_id[p] \o " not found")
  /\ "login" \notin Elems(trace[p])

\* C9 as stated: every get_stream_details whose get_track yields a track calls
\* login exactly once, after get_track and get_track_url have completed and
\* before it returns, and returns a StreamDetails only if login succeeded; if
\* get_track yields no track it raises MediaNotFoundError naming the item_id.
StreamDetailsEnsuresSession ==
  \A p \in Callers :
    (pc[p] = "returned" /\ op[p] = "get_stream_details"
       /\ "get_track_url" \in Elems(trace[p])) =>
      IF track[p] # None THEN LoginOnceAfterFetches(p) ELSE RaisedTrackNotFound(p)

\* C9 as the code has it: the same of every get_stream_details whose get_track
\* and get_track_url have both completed; when one of them raises, the
\* exception reaches the caller, login is not called and nothing is returned.
StreamDetailsEnsuresSessionAfterFetches ==
  \A p \in Callers :
    (pc[p] = "returned" /\ op[p] = "get_stream_details") =>
      IF url[p] # None
      THEN IF track[p] # None THEN LoginOnceAfterFetches(p) ELSE RaisedTrackNotFound(p)
      ELSE /\ ret[p] = Raises("SdkError", "")
           /\ "login" \notin Elems(trace[p])

\* get_stream_details has returned a StreamDetails after a login that
\* refreshed the session
StreamDetailsAfterRefresh ==
  \E p \in Callers :
    /\ pc[p] = "returned"
    /\ op[p] = "get_stream_details"
    /\ track[p] # None
    /\ url[p] # None
    /\ ret[p].kind = "StreamDetails"
    /\ trace[p] = StreamCallsRefreshed

\* handle_setup runs in the step, up to login's await
SetupStep == phase = "new" /\ phase' # "new"

\* C10 as stated: only login changes the cached credentials, the cached
\* handle, the cached user id or the store; no other operation does, and
\* handle_setup does not before it calls login.
OnlyLoginMutates ==
  [][~UNCHANGED <<cached, config>> => \E p \in Callers : LoginCompletes(p)]_vars

\* C10 as the code has it: handle_setup, before it calls login, sets the
\* cached access token, refresh token and expiry from the stored values that
\* are not empty and leaves handle, user id and store alone; apart from that
\* only a login whose tidal_session call returned changes any of them.
OnlyLoginAndSetupLoadMutate ==
  [][/\ SetupStep =>
          /\ UNCHANGED <<config, tidal_session, tidal_user_id>>
          /\ access_token' = IF config[CONF_ACCESS_TOKEN] \in {None, Some("")}
                             THEN access_token ELSE config[CONF_ACCESS_TOKEN]
          /\ refresh_token' = IF config[CONF_REFRESH_TOKEN] \in {None, Some("")}
                              THEN refresh_token ELSE config[CONF_REFRESH_TOKEN]
          /\ IF config[CONF_EXPIRY_TIME] \in {None, Some("")}
             THEN expiry_time' = expiry_time
             ELSE /\ expiry_time' # None
                  /\ isoformat(expiry_time'[1]) = config[CONF_EXPIRY_TIME][1]
     /\ (~SetupStep /\ ~\E p \in Callers : LoginCompletes(p)) =>
          UNCHANGED <<cached, config>>]_vars

\* handle_setup has loaded the stored credentials and is suspended in login
SetupLoadedCredentials ==
  /\ phase = "setup"
  /\ tidal_session = None
  /\ tidal_user_id = None
  /\ config[CONF_ACCESS_TOKEN] = Some("a0")
  /\ access_token = Some("a0")
  /\ refresh_token = Some("r0")
  /\ expiry_time = Some(Margin)

-----------------------------------------------------------------------------
(* Properties of the track listings *)

ListingOperations == {"get_album_tracks", "get_artist_toptracks", "get_playlist_tracks"}

\* The indexes of the available tracks of the SDK's sequence
Available == {i \in 1..Len(tracks) : tracks[i].available}

\* The listing holds available tracks only, each once, in the SDK's order
ListsAvailableInOrder ==
  /\ Len(listing) = Cardinality(Available)
  /\ \A k \in 1..Len(listing) :
       \E i \in Available :
         /\ listing[k].item_id = tracks[i].id
         /\ Cardinality({j \in Available : j < i}) = k - 1

\* C6 as stated: a track listing returns the available tracks only, in their
\* original order, and their positions are 1, 2, ..., N, the k-th returned
\* track at position k.
PositionsAreOneToN ==
  listed_by \in ListingOperations =>
    /\ ListsAvailableInOrder
    /\ \A k \in 1..Len(listing) : listing[k].position = k

\* C6 as the code has it: a track listing returns the available tracks only,
\* in their original order, and the position of each is its 1-based index in
\* the SDK's sequence, the unavailable tracks counted.
PositionsAreSdkIndexes ==
  listed_by \in ListingOperations =>
    /\ ListsAvailableInOrder
    /\ \A k \in 1..Len(listing) :
         /\ listing[k].position \in Available
         /\ tracks[listing[k].position].id = listing[k].item_id

\* get_playlist_tracks has listed a playlist whose first track is unavailable
ListedWithGap ==
  /\ listed_by = "get_playlist_tracks"
  /\ Len(tracks) = 3
  /\ ~tracks[1].available
  /\ Len(listing) = 2
  /\ listing[1].position = 2
  /\ listing[2].position = 3

\* The ids of the listed tracks of the playlist from index i on whose
\* position is among those requested
RECURSIVE IdsAt(_)
IdsAt(i) ==
  IF i > Len(tracks) THEN <<>>
  ELSE IF tracks[i].available /\ i \in Elems(positions)
       THEN <<tracks[i].id>> \o IdsAt(i + 1)
       ELSE IdsAt(i + 1)

\* C7: remove_playlist_tracks submits one batch for removal, holding the ids
\* of the listed playlist tracks whose position is among those requested and
\* no other id; a position beyond the playlist and a repeated position add
\* nothing.
RemovesRequestedPositions ==
  listed_by = "remove_playlist_tracks" =>
    /\ Len(removed) = 1
    /\ removed[1] = IdsAt(1)
    /\ \A k \in 1..Len(removed[1]) :
         \E i \in Elems(positions) \cap (1..Len(tracks)) : removed[1][k] = tracks[i].id

\* Positions 2 and 4 of a playlist of 5 tracks have been removed
RemovedSecondAndFourth ==
  /\ listed_by = "remove_playlist_tracks"
  /\ Len(tracks) = 5
  /\ Available = 1..5
  /\ positions = <<2, 4>>
  /\ removed = << <<"t2", "t4">> >>

-----------------------------------------------------------------------------
(* Properties of the single-entity fetches *)

====
